---- MODULE Spec2Model ----
(***************************************************************************)
(* Model of IntervalMap<K, V> (src/src/interval_map/mod.rs): an ordered    *)
(* map of breakpoints plus a default value, with point lookup (Index) and  *)
(* range assignment (assign).                                              *)
(*                                                                         *)
(* Keys are the integers 0..MaxKey      (K: Ord, no arithmetic is done on  *)
(* keys), values are 1..NumValues (V: Eq).  value_map is a function whose  *)
(* DOMAIN is the set of stored keys (BTreeMap<K, V>).                      *)
(***************************************************************************)
EXTENDS Integers, FiniteSets, Sequences, TLC

MaxKey == 3
NumValues == 3
MaxWideKey == 6

Keys == 0..MaxKey
\* a longer stretch of keys, with room for three runs and the gaps between
WideKeys == 0..MaxWideKey
Values == 1..NumValues

VARIABLES
    default_value,  \* IntervalMap::default_value
    value_map,      \* IntervalMap::value_map
    op,             \* the last call: "new", "assign" or "index"
    key_begin,      \* arguments of the last call, if it was an assign
    key_end,
    value,
    assigned,       \* what it returned
    key,            \* argument of the last call, if it was an index
    output,         \* what it returned
    old_map,        \* value_map as it was when the last call was made
    old_default,    \* default_value as it was when the last call was made
    runs            \* the <<begin, end, value>> of the calls made so far by a
                    \* caller that assigns disjoint ranges (AssignDisjoint)

vars == <<default_value, value_map, op, key_begin, key_end, value,
          assigned, key, output, old_map, old_default, runs>>

----------------------------------------------------------------------------
(* BTreeMap and Option helpers *)

None == -1

EmptyMap == [k \in {} |-> 0]

\* BTreeMap::insert: adds the entry, replacing the value of an existing key
insert(m, k, v) == [x \in (DOMAIN m) \cup {k} |-> IF x = k THEN v ELSE m[x]]

\* BTreeMap::remove_entry for every element of a list of keys
remove_all(m, ks) == [x \in (DOMAIN m) \ ks |-> m[x]]

contains_key(m, k) == k \in DOMAIN m

Max(S) == CHOOSE x \in S : \A y \in S : y <= x
Min(S) == CHOOSE x \in S : \A y \in S : x <= y

\* every BTreeMap over the keys: the stores a caller of Index can build
AllMaps == UNION {[D -> Values] : D \in SUBSET Keys}

----------------------------------------------------------------------------
(* Helper queries of IntervalMap *)

max_key(m) == IF DOMAIN m = {} THEN None ELSE Max(DOMAIN m)

min_key(m) == IF DOMAIN m = {} THEN None ELSE Min(DOMAIN m)

next_key(m, k) ==
    LET later == {x \in DOMAIN m : x > k}
    IN  IF later = {} THEN None ELSE Min(later)

previous_key(m, k) ==
    LET earlier == {x \in DOMAIN m : x < k}
    IN  IF earlier = {} THEN None ELSE Max(earlier)

next_value(m, d, k) ==
    IF next_key(m, k) = None THEN d ELSE m[next_key(m, k)]

previous_value(m, d, k) ==
    IF previous_key(m, k) = None THEN d ELSE m[previous_key(m, k)]

\* key_exceeds that answers false when there is no next key
key_exceeds_none_false(m, k, threshold) ==
    IF next_key(m, k) = None THEN FALSE ELSE next_key(m, k) > threshold

key_exceeds(m, k, threshold) ==
    IF next_key(m, k) = None THEN TRUE ELSE next_key(m, k) > threshold

\* keys_in_range with the end of the range included
keys_in_range_inclusive(m, start, end) ==
    {x \in DOMAIN m : x >= start /\ x <= end}

keys_in_range(m, start, end) == {x \in DOMAIN m : x >= start /\ x < end}

\* index with the first test written key <= min_key
index_le_min(m, d, k) ==
    IF min_key(m) = None \/ k <= min_key(m)
    THEN d
    ELSE IF contains_key(m, k) THEN m[k] ELSE previous_value(m, d, k)

\* Index::index; Some(key) < min_key is false when min_key is None
index(m, d, k) ==
    IF min_key(m) = None \/ k < min_key(m)
    THEN d
    ELSE IF contains_key(m, k) THEN m[k] ELSE previous_value(m, d, k)

----------------------------------------------------------------------------
(* IntervalMap::assign, as a function of the store: the store it leaves    *)
(* and the boolean it returns                                              *)

\* the test with the value after key_begin in place of the value at key_end
rejected_next_of_begin(m, d, b, e, v) ==
    v = previous_value(m, d, b) \/ v = next_value(m, d, b)

\* the test with both neighbours required to match
rejected_both(m, d, b, e, v) ==
    v = previous_value(m, d, b) /\ v = index(m, d, e)

\* the test on the previous value alone
rejected_previous_only(m, d, b, e, v) ==
    v = previous_value(m, d, b)

\* the consecutive-values test of assign
rejected(m, d, b, e, v) ==
    v = previous_value(m, d, b) \/ v = index(m, d, e)

\* the flag end_set of assign: a breakpoint was written at key_end to carry
\* on the run of the last overlapped key
end_set(m, b, e) ==
    LET overlapped == keys_in_range(m, b, e)
    IN  /\ overlapped # {}
        /\ ~contains_key(m, e)
        /\ key_exceeds(m, Max(overlapped), e)

\* overwrite that leaves the overlapped breakpoints in the store
overwrite_keep_overlapped(m, d, b, e, v) ==
    LET overlapped == keys_in_range(m, b, e)
        last_overlap == Max(overlapped)
        m1 == IF end_set(m, b, e)
              THEN insert(m, e, index(m, d, last_overlap)) ELSE m
        m3 == insert(m1, b, v)
        m4 == IF ~end_set(m, b, e) /\ ~contains_key(m3, e) THEN insert(m3, e, d) ELSE m3
    IN  m4

\* overwrite that never writes the new run's start
overwrite_no_begin(m, d, b, e, v) ==
    LET overlapped == keys_in_range(m, b, e)
        last_overlap == Max(overlapped)
        m1 == IF end_set(m, b, e)
              THEN insert(m, e, index(m, d, last_overlap)) ELSE m
        m2 == IF overlapped # {} THEN remove_all(m1, overlapped) ELSE m1
        m4 == IF ~end_set(m, b, e) /\ ~contains_key(m2, e) THEN insert(m2, e, d) ELSE m2
    IN  m4

\* overwrite that removes the overlapped breakpoints before it reads the
\* value of the last of them
overwrite_remove_first(m, d, b, e, v) ==
    LET overlapped == keys_in_range(m, b, e)
        last_overlap == Max(overlapped)
        m1 == IF overlapped # {} THEN remove_all(m, overlapped) ELSE m
        m2 == IF end_set(m, b, e)
              THEN insert(m1, e, index(m1, d, last_overlap)) ELSE m1
        m3 == insert(m2, b, v)
        m4 == IF ~end_set(m, b, e) /\ ~contains_key(m3, e) THEN insert(m3, e, d) ELSE m3
    IN  m4

\* overwrite that writes default_value at key_end without looking for a
\* breakpoint there
overwrite_end_unchecked(m, d, b, e, v) ==
    LET overlapped == keys_in_range(m, b, e)
        last_overlap == Max(overlapped)
        m1 == IF end_set(m, b, e)
              THEN insert(m, e, index(m, d, last_overlap)) ELSE m
        m2 == IF overlapped # {} THEN remove_all(m1, overlapped) ELSE m1
        m3 == insert(m2, b, v)
        m4 == IF ~end_set(m, b, e) THEN insert(m3, e, d) ELSE m3
    IN  m4

\* overwrite that ends the new run with value in place of default_value
overwrite_end_value(m, d, b, e, v) ==
    LET overlapped == keys_in_range(m, b, e)
        last_overlap == Max(overlapped)
        m1 == IF end_set(m, b, e)
              THEN insert(m, e, index(m, d, last_overlap)) ELSE m
        m2 == IF overlapped # {} THEN remove_all(m1, overlapped) ELSE m1
        m3 == insert(m2, b, v)
        m4 == IF ~end_set(m, b, e) /\ ~contains_key(m3, e) THEN insert(m3, e, v) ELSE m3
    IN  m4

\* the part of assign after the rejection test
overwrite(m, d, b, e, v) ==
    LET overlapped == keys_in_range(m, b, e)
        last_overlap == Max(overlapped)
        m1 == IF end_set(m, b, e)
              THEN insert(m, e, index(m, d, last_overlap)) ELSE m
        m2 == IF overlapped # {} THEN remove_all(m1, overlapped) ELSE m1
        m3 == insert(m2, b, v)
        m4 == IF ~end_set(m, b, e) /\ ~contains_key(m3, e) THEN insert(m3, e, d) ELSE m3
    IN  m4

\* assign with the bounds test written key_begin > key_end
assign_gt(m, d, b, e, v) ==
    IF b > e
    THEN [map |-> m, ret |-> FALSE]
    ELSE IF DOMAIN m = {} /\ v # d
    THEN [map |-> insert(insert(m, b, v), e, d), ret |-> TRUE]
    ELSE IF rejected(m, d, b, e, v)
    THEN [map |-> m, ret |-> FALSE]
    ELSE [map |-> overwrite(m, d, b, e, v), ret |-> TRUE]

\* assign with the consecutive-values test made after the store is rewritten
assign_late_test(m, d, b, e, v) ==
    IF b >= e
    THEN [map |-> m, ret |-> FALSE]
    ELSE IF DOMAIN m = {} /\ v # d
    THEN [map |-> insert(insert(m, b, v), e, d), ret |-> TRUE]
    ELSE IF rejected(m, d, b, e, v)
    THEN [map |-> overwrite(m, d, b, e, v), ret |-> FALSE]
    ELSE [map |-> overwrite(m, d, b, e, v), ret |-> TRUE]

\* assign with the empty-store path taken for the default value too
assign_fast_unchecked(m, d, b, e, v) ==
    IF b >= e
    THEN [map |-> m, ret |-> FALSE]
    ELSE IF DOMAIN m = {}
    THEN [map |-> insert(insert(m, b, v), e, d), ret |-> TRUE]
    ELSE IF rejected(m, d, b, e, v)
    THEN [map |-> m, ret |-> FALSE]
    ELSE [map |-> overwrite(m, d, b, e, v), ret |-> TRUE]

assign(m, d, b, e, v) ==
    IF b >= e
    THEN [map |-> m, ret |-> FALSE]
    ELSE IF DOMAIN m = {} /\ v # d
    THEN [map |-> insert(insert(m, b, v), e, d), ret |-> TRUE]
    ELSE IF rejected(m, d, b, e, v)
    THEN [map |-> m, ret |-> FALSE]
    ELSE [map |-> overwrite(m, d, b, e, v), ret |-> TRUE]

----------------------------------------------------------------------------
(* The state machine *)

\* IntervalMap::new(default)
Init ==
    /\ default_value \in Values
    /\ value_map = EmptyMap
    /\ op = "new"
    /\ key_begin = 0
    /\ key_end = 0
    /\ value = default_value
    /\ assigned = FALSE
    /\ key = 0
    /\ output = default_value
    /\ old_map = EmptyMap
    /\ old_default = default_value
    /\ runs = {}

\* a caller of Index may hold any store (test_indexing builds one directly)
InitIndex ==
    /\ default_value \in Values
    /\ value_map \in AllMaps
    /\ op = "new"
    /\ key_begin = 0
    /\ key_end = 0
    /\ value = default_value
    /\ assigned = FALSE
    /\ key = 0
    /\ output = default_value
    /\ old_map = value_map
    /\ old_default = default_value
    /\ runs = {}

Assign(b, e, v) ==
    LET r == assign(value_map, default_value, b, e, v)
    IN  /\ value_map' = r.map
        /\ assigned' = r.ret
        /\ op' = "assign"
        /\ key_begin' = b
        /\ key_end' = e
        /\ value' = v
        /\ old_map' = value_map
        /\ old_default' = default_value
        /\ key' = 0
        /\ output' = default_value
        /\ UNCHANGED <<default_value, runs>>

Index(k) ==
    /\ output' = index(value_map, default_value, k)
    /\ key' = k
    /\ op' = "index"
    /\ old_map' = value_map
    /\ old_default' = default_value
    /\ key_begin' = 0
    /\ key_end' = 0
    /\ value' = default_value
    /\ assigned' = FALSE
    /\ UNCHANGED <<default_value, value_map, runs>>

\* assign called as test_limits and test_default_intervals call it: a value
\* other than the default, over a range that neither meets nor touches a
\* range assigned before
AssignDisjoint(b, e, v) ==
    LET r == assign(value_map, default_value, b, e, v)
    IN  /\ b < e
        /\ v # default_value
        /\ \A t \in runs : e < t[1] \/ t[2] < b
        /\ value_map' = r.map
        /\ assigned' = r.ret
        /\ op' = "assign"
        /\ key_begin' = b
        /\ key_end' = e
        /\ value' = v
        /\ old_map' = value_map
        /\ old_default' = default_value
        /\ key' = 0
        /\ output' = default_value
        /\ runs' = runs \cup {<<b, e, v>>}
        /\ UNCHANGED default_value

Next ==
    \/ \E b \in Keys, e \in Keys, v \in Values : Assign(b, e, v)
    \/ \E k \in Keys : Index(k)

Spec == Init /\ [][Next]_vars

NextIndex == \E k \in Keys : Index(k)

SpecIndex == InitIndex /\ [][NextIndex]_vars

NextDisjoint ==
    \E b \in WideKeys, e \in WideKeys, v \in Values : AssignDisjoint(b, e, v)

SpecDisjoint == Init /\ [][NextDisjoint]_vars

----------------------------------------------------------------------------
(* Reference definitions used by the properties *)

\* the value in effect at k: the value of the greatest stored key <= k,
\* or the default when there is none
Lookup(m, d, k) ==
    LET at_or_below == {x \in DOMAIN m : x <= k}
    IN  IF at_or_below = {} THEN d ELSE m[Max(at_or_below)]

\* the keys of the half-open range of the last assign
InRange == {k \in Keys : key_begin <= k /\ k < key_end}

Accepted == op = "assign" /\ assigned

Refused == op = "assign" /\ ~assigned

----------------------------------------------------------------------------
(* Properties *)

\* C1: canonical form. Every stored breakpoint (k, v) has v different from
\* the value in effect immediately before k (the value of the greatest
\* stored key below k, or default_value if there is none).
Canonical ==
    \A k \in DOMAIN value_map :
        value_map[k] # previous_value(value_map, default_value, k)

\* C2: whenever assign(begin, end, value) returns true, lookup(k) afterwards
\* equals value for every key k with begin <= k < end.
AcceptedRangeHasValue ==
    Accepted =>
        \A k \in InRange : index(value_map, default_value, k) = value

\* an accepted assign over a range of several keys that held breakpoints
AcceptedRangeHasValueWitness ==
    /\ Accepted
    /\ key_end - key_begin >= 2
    /\ Cardinality(keys_in_range(old_map, key_begin, key_end)) >= 2

\* C3: assign changes the value in effect only inside the range: lookup(k)
\* after the call equals lookup(k) before the call for every key k < begin
\* and every key k >= end, whatever the call returns.
FrameOutsideRange ==
    op = "assign" =>
        \A k \in Keys \ InRange :
            index(value_map, default_value, k) = index(old_map, old_default, k)

\* C4: container[k] returns default_value if the store is empty or k is below
\* the smallest stored key, and otherwise the value of the greatest stored
\* key <= k; it always returns a value and leaves the store as it was.
IndexMatchesLookup ==
    op = "index" =>
        /\ output = Lookup(old_map, old_default, key)
        /\ output \in Values
        /\ value_map = old_map
        /\ default_value = old_default

\* a lookup between two breakpoints, answered by the previous breakpoint
IndexMatchesLookupWitness ==
    /\ op = "index"
    /\ ~contains_key(value_map, key)
    /\ previous_key(value_map, key) # None
    /\ next_key(value_map, key) # None
    /\ output # default_value

\* C5 as stated: if assign returns false then begin >= end, or lookup(k)
\* already equals value for every key k in [begin, end).
RefusedOnlyWhenNoOp ==
    Refused =>
        \/ key_begin >= key_end
        \/ \A k \in InRange : index(old_map, old_default, k) = value

\* C5 amended: if assign returns false then begin >= end, or value equals
\* the value in effect just before begin, or value equals lookup(end).
RefusedOnlyWhenNeighbourEqual ==
    Refused =>
        \/ key_begin >= key_end
        \/ value = previous_value(old_map, old_default, key_begin)
        \/ value = index(old_map, old_default, key_end)

\* a refused assign over a range that did not hold the value throughout
RefusedOnlyWhenNeighbourEqualWitness ==
    /\ Refused
    /\ key_begin < key_end
    /\ \E k \in InRange : index(old_map, old_default, k) # value

\* the last assign named a run that was already stored as it is: begin held
\* value, end was a breakpoint and no breakpoint lay strictly between them
SameRun ==
    /\ contains_key(old_map, key_begin)
    /\ old_map[key_begin] = value
    /\ contains_key(old_map, key_end)
    /\ keys_in_range(old_map, key_begin, key_end) = {key_begin}

\* C6 as stated: if assign returns true then the breakpoint store after the
\* call differs from the store before the call.
AcceptedMeansChanged ==
    Accepted => value_map # old_map

\* C6 amended: if assign returns true then the store after the call differs
\* from the store before it, unless the call re-assigns a stored run its own
\* value (begin already held value, end was already a breakpoint and no
\* breakpoint lay strictly between them).
AcceptedMeansChangedUnlessSameRun ==
    (Accepted /\ ~SameRun) => value_map # old_map

\* an accepted assign on a non-empty store that is not such a re-assignment
AcceptedMeansChangedUnlessSameRunWitness ==
    /\ Accepted
    /\ ~SameRun
    /\ old_map # EmptyMap
    /\ contains_key(old_map, key_end)

\* C7: assign with begin >= end returns false and leaves the breakpoint
\* store and the default value unchanged, for every value.
InvertedBoundsRefused ==
    (op = "assign" /\ key_begin >= key_end) =>
        /\ ~assigned
        /\ value_map = old_map
        /\ default_value = old_default

\* equal and inverted bounds, with a value the store would otherwise take
InvertedBoundsRefusedWitness ==
    /\ op = "assign"
    /\ key_begin >= key_end
    /\ value # previous_value(old_map, old_default, key_begin)
    /\ value # index(old_map, old_default, key_end)

\* C8: whenever assign returns false the breakpoint store and the default
\* value are what they were before the call.
RefusedLeavesStore ==
    Refused =>
        /\ value_map = old_map
        /\ default_value = old_default

\* an assign refused by the consecutive-values test over stored breakpoints
RefusedLeavesStoreWitness ==
    /\ Refused
    /\ key_begin < key_end
    /\ keys_in_range(old_map, key_begin, key_end) # {}

\* C9: for begin < end, assign returns false if and only if value equals
\* the value in effect just before begin or value equals lookup(end).
RefusalRule ==
    (op = "assign" /\ key_begin < key_end) =>
        (~assigned <=>
            \/ value = Lookup(old_map, old_default, key_begin - 1)
            \/ value = Lookup(old_map, old_default, key_end))

\* an assign refused for the value at end alone
RefusalRuleWitness ==
    /\ Refused
    /\ key_begin < key_end
    /\ value # Lookup(old_map, old_default, key_begin - 1)
    /\ value = Lookup(old_map, old_default, key_end)

\* C10: if begin < end and lookup(begin) = value and lookup(end) = value,
\* assign returns false and the store, hence the breakpoint count, is
\* unchanged.
RedundantAssignRefused ==
    (/\ op = "assign"
     /\ key_begin < key_end
     /\ index(old_map, old_default, key_begin) = value
     /\ index(old_map, old_default, key_end) = value) =>
        /\ ~assigned
        /\ value_map = old_map
        /\ Cardinality(DOMAIN value_map) = Cardinality(DOMAIN old_map)

\* a redundant assign starting at the breakpoint that opens the run
RedundantAssignRefusedWitness ==
    /\ op = "assign"
    /\ key_begin < key_end
    /\ contains_key(old_map, key_begin)
    /\ old_map[key_begin] = value
    /\ index(old_map, old_default, key_end) = value

\* the breakpoints the last assign found in its range
Overlapped == keys_in_range(old_map, key_begin, key_end)

\* C11: when an accepted assign overlaps at least one stored breakpoint in
\* [begin, end) and no breakpoint is stored at end, afterwards a breakpoint
\* is stored at end carrying the value that was in effect at end before the
\* call, so lookup(k) is unchanged for every k >= end.
TailTruncated ==
    (Accepted /\ Overlapped # {} /\ ~contains_key(old_map, key_end)) =>
        /\ contains_key(value_map, key_end)
        /\ value_map[key_end] = Lookup(old_map, old_default, key_end)
        /\ \A k \in Keys :
              k >= key_end =>
                  index(value_map, default_value, k)
                      = index(old_map, old_default, k)

\* [0, 3) = b then [0, 2) = c: the run of b, not the default, goes on at 2
TailTruncatedWitness ==
    /\ Accepted
    /\ Overlapped # {}
    /\ ~contains_key(old_map, key_end)
    /\ value_map[key_end] # default_value
    /\ next_key(value_map, key_end) # None

\* C12 as stated: after assign(begin, end, default_value) with begin < end,
\* lookup(k) returns default_value for every key k in [begin, end).
DefaultAssignClearsRange ==
    (op = "assign" /\ key_begin < key_end /\ value = old_default) =>
        \A k \in InRange : index(value_map, default_value, k) = default_value

\* C12 amended: after assign(begin, end, default_value) with begin < end,
\* lookup(k) returns default_value for every key k in [begin, end) when
\* neither the value in effect just before begin nor lookup(end) is
\* default_value; otherwise the call returns false and the store is as it
\* was.
DefaultAssignClearsInnerRange ==
    (op = "assign" /\ key_begin < key_end /\ value = old_default) =>
        IF \/ Lookup(old_map, old_default, key_begin - 1) = old_default
           \/ Lookup(old_map, old_default, key_end) = old_default
        THEN ~assigned /\ value_map = old_map
        ELSE /\ assigned
             /\ \A k \in InRange :
                   index(value_map, default_value, k) = default_value

\* the default assigned over part of a run of another value
DefaultAssignClearsInnerRangeWitness ==
    /\ Accepted
    /\ key_begin < key_end
    /\ value = default_value
    /\ \A k \in InRange : index(old_map, old_default, k) # old_default

\* C13: on a store holding exactly (b, x) and (e, default) with x not the
\* default, assign(b, e, y) with y not the default returns true and leaves
\* exactly (b, y) and (e, default): y on [b, e), the default elsewhere, 2
\* breakpoints. And an accepted assign whose begin and end are both stored
\* with no breakpoint strictly between them changes only the value stored at
\* begin and leaves the set of stored keys as it was.
OverwriteInPlace ==
    /\ (/\ op = "assign"
        /\ key_begin < key_end
        /\ DOMAIN old_map = {key_begin, key_end}
        /\ old_map[key_begin] # old_default
        /\ old_map[key_end] = old_default
        /\ value # old_default) =>
            /\ assigned
            /\ Cardinality(DOMAIN value_map) = 2
            /\ \A k \in Keys :
                  index(value_map, default_value, k) =
                      IF k \in InRange THEN value ELSE default_value
    /\ (/\ Accepted
        /\ contains_key(old_map, key_begin)
        /\ contains_key(old_map, key_end)
        /\ Overlapped = {key_begin}) =>
            /\ DOMAIN value_map = DOMAIN old_map
            /\ value_map[key_begin] = value
            /\ \A k \in DOMAIN old_map \ {key_begin} :
                  value_map[k] = old_map[k]

\* the only run of the store, several keys long, given another value
OverwriteInPlaceWitness ==
    /\ Accepted
    /\ key_end - key_begin >= 2
    /\ DOMAIN old_map = {key_begin, key_end}
    /\ DOMAIN value_map = {key_begin, key_end}
    /\ old_map[key_begin] # value
    /\ old_map[key_begin] # old_default
    /\ value # old_default

\* the store that holds each of the ranges R and nothing else: the value at
\* each begin, the default at each end
StoreOf(R, d) ==
    [k \in {t[1] : t \in R} \cup {t[2] : t \in R} |->
        IF \E t \in R : t[1] = k
        THEN (CHOOSE t \in R : t[1] = k)[3]
        ELSE d]

\* C14: after any number of assignments of pairwise disjoint, non-touching
\* ranges with non-default values to a fresh map, in whatever order they
\* were made, every call has returned true and the store is the one of the
\* set of ranges: the assigned value inside each range, the default
\* everywhere else, two breakpoints for each range.
DisjointAssignsIndependent ==
    /\ op = "assign" => assigned
    /\ value_map = StoreOf(runs, default_value)
    /\ Cardinality(DOMAIN value_map) = 2 * Cardinality(runs)
    /\ \A k \in WideKeys :
          index(value_map, default_value, k) =
              IF \E t \in runs : t[1] <= k /\ k < t[2]
              THEN (CHOOSE t \in runs : t[1] <= k /\ k < t[2])[3]
              ELSE default_value

\* three ranges, one at each end of the keys, the middle one assigned last
\* and with the value of the first
DisjointAssignsIndependentWitness ==
    /\ Accepted
    /\ Cardinality(runs) = 3
    /\ \E t \in runs : t[1] = 0 /\ t[2] = 1 /\ t[3] = value
    /\ \E t \in runs : t[1] = MaxWideKey - 1 /\ t[2] = MaxWideKey
    /\ 1 < key_begin
    /\ key_end < MaxWideKey - 1

\* C15: for any assign, every breakpoint stored before the call with
\* key < begin or key >= end is still stored afterwards with the same
\* value; a breakpoint at end keeps its value.
OutsideBreakpointsKept ==
    op = "assign" =>
        \A k \in DOMAIN old_map :
            (k < key_begin \/ k >= key_end) =>
                contains_key(value_map, k) /\ value_map[k] = old_map[k]

\* an accepted assign between a breakpoint below begin and a breakpoint at
\* end that holds a value other than the default
OutsideBreakpointsKeptWitness ==
    /\ Accepted
    /\ previous_key(old_map, key_begin) # None
    /\ contains_key(old_map, key_end)
    /\ old_map[key_end] # old_default

\* C16: whenever assign returns true, afterwards (begin, value) is a stored
\* breakpoint, a breakpoint is stored at end, and no breakpoint is stored
\* at any key strictly between begin and end.
AcceptedShape ==
    Accepted =>
        /\ contains_key(value_map, key_begin)
        /\ value_map[key_begin] = value
        /\ contains_key(value_map, key_end)
        /\ \A k \in DOMAIN value_map : ~(key_begin < k /\ k < key_end)

\* an accepted assign that found a breakpoint strictly inside its range and
\* none at end
AcceptedShapeWitness ==
    /\ Accepted
    /\ \E k \in Overlapped : key_begin < k
    /\ ~contains_key(old_map, key_end)

\* C17: with begin < end, assign on a store with no breakpoints returns true
\* and leaves exactly (begin, value) and (end, default_value) when value is
\* not the default, and returns false leaving the store empty when it is.
FirstAssign ==
    (op = "assign" /\ key_begin < key_end /\ old_map = EmptyMap) =>
        IF value # old_default
        THEN /\ assigned
             /\ value_map = StoreOf({<<key_begin, key_end, value>>}, old_default)
        ELSE /\ ~assigned
             /\ value_map = EmptyMap

\* the first accepted assign of a map
FirstAssignWitness ==
    /\ Accepted
    /\ old_map = EmptyMap
    /\ Cardinality(DOMAIN value_map) = 2

\* C18: the store is empty or holds at least two breakpoints, the breakpoint
\* with the greatest key carries default_value, so that lookup(k) returns
\* default_value for every k >= max_key(); and a store that was not empty
\* before a call is not empty after it.
TailInvariant ==
    /\ value_map = EmptyMap \/ Cardinality(DOMAIN value_map) >= 2
    /\ value_map # EmptyMap =>
          /\ value_map[max_key(value_map)] = default_value
          /\ \A k \in Keys :
                k >= max_key(value_map) =>
                    index(value_map, default_value, k) = default_value
    /\ old_map # EmptyMap => value_map # EmptyMap

\* an accepted assign that reached past the greatest key of the store
TailInvariantWitness ==
    /\ Accepted
    /\ old_map # EmptyMap
    /\ key_end > max_key(old_map)
    /\ key_begin <= max_key(old_map)

\* C19: the same assign made again leaves the store as the first call left
\* it, whatever the two calls return.
AssignIdempotent ==
    op = "assign" =>
        assign(value_map, default_value, key_begin, key_end, value).map
            = value_map

\* an assign that changed the store and would be accepted again
AssignIdempotentWitness ==
    /\ Accepted
    /\ value_map # old_map
    /\ ~contains_key(old_map, key_end)
    /\ assign(value_map, default_value, key_begin, key_end, value).ret

\* C20: whenever assign gets past its tests with a non-empty overlap set and
\* no breakpoint at end, key_exceeds(last_overlap, end) is true, end_set is
\* set and end receives the value of last_overlap; so the final insert of
\* (end, default_value) is reached only with an empty overlap set.
KeyExceedsAlwaysTrue ==
    (Accepted /\ old_map # EmptyMap /\ ~contains_key(old_map, key_end)) =>
        /\ Overlapped # {} =>
              /\ key_exceeds(old_map, Max(Overlapped), key_end)
              /\ end_set(old_map, key_begin, key_end)
              /\ value_map[key_end] = old_map[Max(Overlapped)]
        /\ ~end_set(old_map, key_begin, key_end) => Overlapped = {}

\* key_exceeds asked about the greatest key of the store, which has no next
KeyExceedsAlwaysTrueWitness ==
    /\ Accepted
    /\ Overlapped # {}
    /\ ~contains_key(old_map, key_end)
    /\ next_key(old_map, Max(Overlapped)) = None

====
